---- MODULE Spec2Model ----
(***************************************************************************)
(* The capture-session lifecycle of the LiveAvatar component: the effect   *)
(* keyed on the `started` prop (stop branch, asynchronous start sequence,  *)
(* cleanup), the frame pump callback, the detector result callback and the *)
(* paint-synchronised render callback, all interleaving on one event loop. *)
(*                                                                         *)
(* A start sequence is identified by its number g (the g-th time the start *)
(* branch of the effect ran).  Every platform object a sequence creates is *)
(* named by the sequence that created it, so a ref holding g refers to the *)
(* object of that kind created by sequence g, and 0 stands for null.       *)
(*                                                                         *)
(* Spec follows the lifecycle and keeps the landmark cache as the case the *)
(* compositor distinguishes.  PipelineSpec and FrameSpec follow one        *)
(* session whose lifecycle stands still in the detail Spec leaves out: the *)
(* frames outstanding at the detector, the keypoints in the cache, and the *)
(* draw operations and values of a frame.                                  *)
(***************************************************************************)
EXTENDS Naturals, Integers, Sequences, FiniteSets, TLC

\* Number of times the start branch of the effect may run.
MaxStarts == 2
Gens == 1..MaxStarts

\* Frames that may be outstanding at a detector, and detector results that
\* may be delivered, in PipelineSpec.
MaxInflight == 2
MaxResults == 2

\* Largest RMS of the audio window FrameSpec draws a frame with, in
\* twelve-thousandths (1300 is a little above 0.01 + 1/12).
MaxRms == 1300

\* Distance in pixels between the shoulder positions FrameSpec tries.
PixelStep == 20

\* The platform objects a start sequence acquires.
Kinds == {"audioTrack", "videoTrack", "audioContext", "analyser", "pose", "camera"}

\* "none": not created; "created": a frame pump constructed but not
\* started; "live": acquired and in use; "released": its release call ran
\* once; "rereleased": its release call ran more than once.
ResStates == {"none", "created", "live", "released", "rereleased"}

\* getTracks() of the combined stream, in the order forEach visits them.
TrackOrder == <<"audioTrack", "videoTrack">>

\* What results.poseLandmarks can hold: undefined (no body), an empty
\* list, or a keypoint list with both, one or no shoulder keypoint.
Detections == {"undefined", "empty", "both", "oneShoulder", "noShoulder"}

\* Calls of the stop branch that may throw.
StopThrowPoints ==
  {"none", "camera.stop", "pose.close", "track1.stop", "track2.stop",
   "analyser.disconnect", "audioContext.close"}

\* Calls of the start sequence after video playback began that may throw.
BuildThrowPoints ==
  {"none", "new AudioContext", "createAnalyser", "new Pose", "pose.setOptions",
   "cam.start", "computeRms"}

\* LM: the indices of the keypoint list the head is placed from, and one
\* of the other keypoints of the skeleton.
LEFT_SHOULDER == 11
RIGHT_SHOULDER == 12
LEFT_HIP == 23
Joints == {LEFT_SHOULDER, RIGHT_SHOULDER, LEFT_HIP}

\* Width and height of the canvas in pixels.
canvasWidth == 1280
canvasHeight == 720

VARIABLES
  phase,        \* "rendered" (refs attached, effects not yet run), "mounted", "unmounted"
  started,      \* the `started` state of Page, passed as prop
  gen,          \* number of start sequences launched so far
  pc,           \* position of each start sequence
  cancelled,    \* the `cancelled` flag of each start sequence's closure
  res,          \* state of every platform object, by creating sequence
  srcObject,    \* videoRef.current.srcObject: 0, or g for the stream of sequence g
  refs,         \* the useRef handles of the component
  rafPending,   \* render loops that have a requestAnimationFrame callback scheduled
  frames,       \* parity of the number of frames drawn on the canvas
  busy,         \* detectors that were sent a frame whose result is not yet delivered
  inflight,     \* number of frames sent to each detector whose result is not yet delivered
  delivered,    \* number of detector results delivered so far
  poseLandmarks, \* the keypoints landmarksRef.current holds
  level,        \* RMS of the window the analyser holds, in twelve-thousandths
  readyState,   \* video.readyState
  lastFrame     \* what the last render iteration read and drew

\* The detail of the frame pipeline, which stands still in Spec.
detail == <<inflight, delivered, poseLandmarks, level, readyState, lastFrame>>

vars == <<phase, started, gen, pc, cancelled, res, srcObject, refs, rafPending,
          frames, busy, inflight, delivered, poseLandmarks, level, readyState,
          lastFrame>>

NoRes ==
  [audioTrack |-> "none", videoTrack |-> "none", audioContext |-> "none",
   analyser |-> "none", pose |-> "none", camera |-> "none"]

NullRefs ==
  [rafRef |-> 0, cameraRef |-> 0, poseRef |-> 0, analyserRef |-> 0,
   audioContextRef |-> 0, audioBufferRef |-> 0, landmarksRef |-> "null"]

\* canvasRef.current and videoRef.current are attached while the component
\* is in the tree and null once it is torn down.
canvasRef == phase # "unmounted"
videoRef == phase # "unmounted"

\* An element of the keypoint list that is missing.  A keypoint carries
\* its position on the canvas (the normalised coordinate times the canvas
\* size) and n, the number of the detector result that produced it.
NoPoint == [x |-> 0, y |-> 0, n |-> 0]

\* landmarksRef.current before any result, and after a result without body.
NullLandmarks == [is |-> "null", length |-> 0, at |-> [j \in Joints |-> NoPoint]]

\* A field of a frame the iteration did not compute.
NoValue == 0 - 1

\* The canvas before a frame is drawn on it.
Blank ==
  [ops |-> <<>>, lm |-> NullLandmarks, headRadius2 |-> NoValue, rms |-> NoValue,
   mouthOpen |-> NoValue, readyState |-> NoValue, threw |-> FALSE]

\* The detail as Spec keeps it.
DetailInit ==
  /\ inflight = [g \in Gens |-> 0]
  /\ delivered = 0
  /\ poseLandmarks = NullLandmarks
  /\ level = 0
  /\ readyState = 0
  /\ lastFrame = Blank

Init ==
  /\ DetailInit
  /\ phase = "rendered"
  /\ started = FALSE
  /\ gen = 0
  /\ pc = [g \in Gens |-> "idle"]
  /\ cancelled = [g \in Gens |-> FALSE]
  /\ res = [g \in Gens |-> NoRes]
  /\ srcObject = 0
  /\ refs = NullRefs
  /\ rafPending = {}
  /\ frames = 0
  /\ busy = [g \in Gens |-> FALSE]

\* The part of the state the stop branch and the start sequence work on.
Session == [refs |-> refs, res |-> res, srcObject |-> srcObject,
            rafPending |-> rafPending, frames |-> frames, threw |-> FALSE]

\* One more call of an object's release method.
Release(st) ==
  CASE st \in {"live", "created"} -> "released"
    [] st \in {"released", "rereleased"} -> "rereleased"
    [] OTHER -> st

(***************************************************************************)
(* The stop branch, one statement group at a time.  s is the session so    *)
(* far, t the call that throws in this run ("none": no call throws).  Once *)
(* a call has thrown the remaining statements do not run.                  *)
(***************************************************************************)
StopRaf(s) ==
  [s EXCEPT !.rafPending = IF s.refs.rafRef # 0 THEN @ \ {s.refs.rafRef} ELSE @,
            !.refs.rafRef = 0]

\* StopCamera without `cameraRef.current = null`.
StopCameraKeepsRef(s, t) ==
  IF s.threw THEN s
  ELSE IF s.refs.cameraRef # 0 /\ t = "camera.stop" THEN [s EXCEPT !.threw = TRUE]
  ELSE [s EXCEPT !.res = IF s.refs.cameraRef # 0
                         THEN [@ EXCEPT ![s.refs.cameraRef].camera = Release(@)]
                         ELSE @]

StopCamera(s, t) ==
  IF s.threw THEN s
  ELSE IF s.refs.cameraRef # 0 /\ t = "camera.stop" THEN [s EXCEPT !.threw = TRUE]
  ELSE [s EXCEPT !.res = IF s.refs.cameraRef # 0
                         THEN [@ EXCEPT ![s.refs.cameraRef].camera = Release(@)]
                         ELSE @,
                 !.refs.cameraRef = 0]

StopPose(s, t) ==
  IF s.threw THEN s
  ELSE IF s.refs.poseRef # 0 /\ t = "pose.close" THEN [s EXCEPT !.threw = TRUE]
  ELSE [s EXCEPT !.res = IF s.refs.poseRef # 0
                         THEN [@ EXCEPT ![s.refs.poseRef].pose = Release(@)]
                         ELSE @,
                 !.refs.poseRef = 0]

\* t.stop() on the i-th track of the stream held by the video element.
StopTrack(s, t, i, name) ==
  IF s.threw THEN s
  ELSE IF t = name THEN [s EXCEPT !.threw = TRUE]
  ELSE [s EXCEPT !.res[s.srcObject][TrackOrder[i]] = Release(@)]

StopTracks(s, t, video) ==
  IF s.threw \/ ~video \/ s.srcObject = 0 THEN s
  ELSE LET a == StopTrack(s, t, 1, "track1.stop")
           b == StopTrack(a, t, 2, "track2.stop")
       IN  IF b.threw THEN b ELSE [b EXCEPT !.srcObject = 0]

StopAnalyser(s, t) ==
  IF s.threw THEN s
  ELSE IF s.refs.analyserRef # 0 /\ t = "analyser.disconnect" THEN [s EXCEPT !.threw = TRUE]
  ELSE [s EXCEPT !.res = IF s.refs.analyserRef # 0
                         THEN [@ EXCEPT ![s.refs.analyserRef].analyser = Release(@)]
                         ELSE @,
                 !.refs.analyserRef = 0]

StopAudioContext(s, t) ==
  IF s.threw THEN s
  ELSE IF s.refs.audioContextRef # 0 /\ t = "audioContext.close" THEN [s EXCEPT !.threw = TRUE]
  ELSE [s EXCEPT !.res = IF s.refs.audioContextRef # 0
                         THEN [@ EXCEPT ![s.refs.audioContextRef].audioContext = Release(@)]
                         ELSE @,
                 !.refs.audioContextRef = 0]

StopBuffer(s) ==
  IF s.threw THEN s ELSE [s EXCEPT !.refs.audioBufferRef = 0]

StopBranch(s, t, video) ==
  StopBuffer(StopAudioContext(StopAnalyser(StopTracks(StopPose(StopCamera(
    StopRaf(s), t), t), t, video), t), t))

\* Write a session back to the variables.
Commit(s) ==
  /\ refs' = s.refs
  /\ res' = s.res
  /\ srcObject' = s.srcObject
  /\ rafPending' = s.rafPending
  /\ frames' = s.frames

\* An error thrown by the effect body is not caught in the component: React
\* tears the component down.
AfterEffect(s) == IF s.threw THEN "unmounted" ELSE "mounted"

\* First run of the effect after the initial render: started is false, so
\* the stop branch runs on a session that was never started.
MountEffect ==
  /\ phase = "rendered"
  /\ \E t \in StopThrowPoints :
       LET s == StopBranch(Session, t, videoRef) IN
       /\ Commit(s)
       /\ phase' = AfterEffect(s)
  /\ UNCHANGED <<started, gen, pc, cancelled, busy>>

\* Page sets started to true: the effect runs its start branch, which
\* launches the asynchronous start sequence up to its first await.
StartEffect ==
  /\ phase = "mounted"
  /\ ~started
  /\ gen < MaxStarts
  /\ started' = TRUE
  /\ gen' = gen + 1
  /\ pc' = [pc EXCEPT ![gen + 1] = "getUserMedia"]
  /\ cancelled' = [cancelled EXCEPT ![gen + 1] = FALSE]
  /\ UNCHANGED <<phase, res, srcObject, refs, rafPending, frames, busy>>

\* Page sets started to false: the cleanup of the start branch's run sets
\* its cancelled flag, then the effect runs the stop branch.
StopEffect ==
  /\ phase = "mounted"
  /\ started
  /\ started' = FALSE
  /\ cancelled' = [cancelled EXCEPT ![gen] = TRUE]
  /\ \E t \in StopThrowPoints :
       LET s == StopBranch(Session, t, videoRef) IN
       /\ Commit(s)
       /\ phase' = AfterEffect(s)
  /\ UNCHANGED <<gen, pc, busy>>

\* The component leaves the tree: the cleanup of the last effect run
\* executes (only a start-branch run has one) and the DOM refs become null.
Unmount ==
  /\ phase = "mounted"
  /\ phase' = "unmounted"
  /\ cancelled' = IF started THEN [cancelled EXCEPT ![gen] = TRUE] ELSE cancelled
  /\ UNCHANGED <<started, gen, pc, res, srcObject, refs, rafPending, frames, busy>>

(***************************************************************************)
(* The render function: one iteration of the render loop of sequence g.    *)
(* t = "computeRms" makes the audio read of this iteration throw.          *)
(***************************************************************************)
\* The branch of render that draws a mouth reads the audio envelope: the
\* idle face always does, the tracked avatar only with both shoulders.
DrawsMouth(lm) == lm \in {"null", "empty", "both"}

ReadsAudio(s) ==
  /\ DrawsMouth(s.refs.landmarksRef)
  /\ s.refs.analyserRef # 0
  /\ s.refs.audioBufferRef # 0

\* render that requests its next frame before it looks for the canvas.
renderRequestsFirst(s, g, t, canvas) ==
  IF s.threw THEN s
  ELSE LET asked == [s EXCEPT !.refs.rafRef = g, !.rafPending = @ \cup {g}] IN
       IF ~canvas THEN asked
       ELSE IF ReadsAudio(s) /\ t = "computeRms"
            THEN [s EXCEPT !.frames = 1 - @, !.threw = TRUE]
            ELSE [asked EXCEPT !.frames = 1 - @]

render(s, g, t, canvas) ==
  IF s.threw \/ ~canvas THEN s
  ELSE LET drawn == [s EXCEPT !.frames = 1 - @] IN
       IF ReadsAudio(s) /\ t = "computeRms"
       THEN [drawn EXCEPT !.threw = TRUE]
       ELSE [drawn EXCEPT !.refs.rafRef = g, !.rafPending = @ \cup {g}]

(***************************************************************************)
(* The start sequence after video playback began (or was skipped), one     *)
(* statement group at a time; t is the call that throws in this run.       *)
(***************************************************************************)
BuildAudioContext(s, g, t) ==
  IF t = "new AudioContext" THEN [s EXCEPT !.threw = TRUE]
  ELSE [s EXCEPT !.res[g].audioContext = "live", !.refs.audioContextRef = g]

BuildAnalyser(s, g, t) ==
  IF s.threw THEN s
  ELSE IF t = "createAnalyser" THEN [s EXCEPT !.threw = TRUE]
  ELSE [s EXCEPT !.res[g].analyser = "live",
                 !.refs.analyserRef = g,
                 !.refs.audioBufferRef = g]

BuildPose(s, g, t) ==
  IF s.threw THEN s
  ELSE IF t = "new Pose" THEN [s EXCEPT !.threw = TRUE]
  ELSE IF t = "pose.setOptions" THEN [s EXCEPT !.res[g].pose = "live", !.threw = TRUE]
  ELSE [s EXCEPT !.res[g].pose = "live", !.refs.poseRef = g]

BuildCamera(s, g, t, video) ==
  IF s.threw \/ ~video THEN s
  ELSE IF t = "cam.start"
       THEN [s EXCEPT !.res[g].camera = "created", !.refs.cameraRef = g, !.threw = TRUE]
  ELSE [s EXCEPT !.res[g].camera = "live", !.refs.cameraRef = g]

Build(s, g, t, video, canvas) ==
  render(BuildCamera(BuildPose(BuildAnalyser(BuildAudioContext(s, g, t), g, t), g, t),
                     g, t, video),
         g, t, canvas)

\* Where the sequence stands after Build: completed, or in its catch with
\* the call that threw.
AfterBuild(s, t) == IF s.threw THEN t ELSE "done"

\* getUserMedia resolves with a stream of two live tracks.
WithStream(s, g) ==
  [s EXCEPT !.res[g].audioTrack = "live", !.res[g].videoTrack = "live"]

\* The continuation of `await getUserMedia(...)`.
GumResolve(g) ==
  /\ pc[g] = "getUserMedia"
  /\ IF cancelled[g]
     THEN /\ Commit(WithStream(Session, g))
          /\ pc' = [pc EXCEPT ![g] = "returned"]
     ELSE IF videoRef
     THEN /\ Commit([WithStream(Session, g) EXCEPT !.srcObject = g])
          /\ pc' = [pc EXCEPT ![g] = "play"]
     ELSE \E t \in BuildThrowPoints :
            LET s == Build(WithStream(Session, g), g, t, videoRef, canvasRef) IN
            /\ Commit(s)
            /\ pc' = [pc EXCEPT ![g] = AfterBuild(s, t)]
  /\ UNCHANGED <<phase, started, gen, cancelled, busy>>

\* GumReject where the rejected request leaves a camera track behind.
GumRejectKeepsTrack(g) ==
  /\ pc[g] = "getUserMedia"
  /\ pc' = [pc EXCEPT ![g] = "rejected getUserMedia"]
  /\ res' = [res EXCEPT ![g].videoTrack = "live"]
  /\ UNCHANGED <<phase, started, gen, cancelled, srcObject, refs, rafPending,
                 frames, busy>>

\* getUserMedia rejects: the catch logs the error.
GumReject(g) ==
  /\ pc[g] = "getUserMedia"
  /\ pc' = [pc EXCEPT ![g] = "rejected getUserMedia"]
  /\ UNCHANGED <<phase, started, gen, cancelled, res, srcObject, refs, rafPending,
                 frames, busy>>

\* The continuation of `await videoRef.current.play()`: the rest of the
\* start sequence runs to its end or to the first call that throws.
PlayResolve(g) ==
  /\ pc[g] = "play"
  /\ \E t \in BuildThrowPoints :
       LET s == Build(Session, g, t, videoRef, canvasRef) IN
       /\ Commit(s)
       /\ pc' = [pc EXCEPT ![g] = AfterBuild(s, t)]
  /\ UNCHANGED <<phase, started, gen, cancelled, busy>>

\* play() rejects: the catch logs the error.
PlayReject(g) ==
  /\ pc[g] = "play"
  /\ pc' = [pc EXCEPT ![g] = "rejected play"]
  /\ UNCHANGED <<phase, started, gen, cancelled, res, srcObject, refs, rafPending,
                 frames, busy>>

\* A scheduled requestAnimationFrame callback of loop g fires.
RenderCallback(g) ==
  /\ g \in rafPending
  /\ \E t \in {"none", "computeRms"} :
       Commit(render([Session EXCEPT !.rafPending = @ \ {g}], g, t, canvasRef))
  /\ UNCHANGED <<phase, started, gen, pc, cancelled, busy>>

\* The frame pump of sequence c delivers a camera frame: onFrame forwards
\* it to the detector poseRef holds.  send may reject.
onFrame(c) ==
  /\ res[c].camera = "live"
  /\ refs.poseRef # 0
  /\ videoRef
  /\ \E ok \in BOOLEAN :
       busy' = IF ok THEN [busy EXCEPT ![refs.poseRef] = TRUE] ELSE busy
  /\ UNCHANGED <<phase, started, gen, pc, cancelled, res, srcObject, refs, rafPending,
                 frames>>

\* Detector p reports the result of a frame: the onResults callback
\* replaces the landmark cache.  Further frames sent to p may remain
\* unanswered.
onResults(p) ==
  /\ busy[p]
  /\ \E more \in BOOLEAN : busy' = [busy EXCEPT ![p] = more]
  /\ \E d \in Detections :
       refs' = [refs EXCEPT !.landmarksRef = IF d = "undefined" THEN "null" ELSE d]
  /\ UNCHANGED <<phase, started, gen, pc, cancelled, res, srcObject, rafPending, frames>>

Next ==
  \/ MountEffect /\ UNCHANGED detail
  \/ StartEffect /\ UNCHANGED detail
  \/ StopEffect /\ UNCHANGED detail
  \/ Unmount /\ UNCHANGED detail
  \/ \E g \in Gens : GumResolve(g) /\ UNCHANGED detail
  \/ \E g \in Gens : GumReject(g) /\ UNCHANGED detail
  \/ \E g \in Gens : PlayResolve(g) /\ UNCHANGED detail
  \/ \E g \in Gens : PlayReject(g) /\ UNCHANGED detail
  \/ \E g \in Gens : RenderCallback(g) /\ UNCHANGED detail
  \/ \E g \in Gens : onFrame(g) /\ UNCHANGED detail
  \/ \E g \in Gens : onResults(g) /\ UNCHANGED detail

Spec == Init /\ [][Next]_vars

TypeOK ==
  /\ phase \in {"rendered", "mounted", "unmounted"}
  /\ started \in BOOLEAN
  /\ gen \in 0..MaxStarts
  /\ pc \in [Gens -> {"idle", "getUserMedia", "play", "done", "returned",
                      "rejected getUserMedia", "rejected play"}
                     \cup (BuildThrowPoints \ {"none"})]
  /\ cancelled \in [Gens -> BOOLEAN]
  /\ \A g \in Gens : \A k \in Kinds : res[g][k] \in ResStates
  /\ srcObject \in 0..MaxStarts
  /\ \A f \in {"rafRef", "cameraRef", "poseRef", "analyserRef", "audioContextRef",
                "audioBufferRef"} : refs[f] \in 0..MaxStarts
  /\ refs.landmarksRef \in {"null"} \cup (Detections \ {"undefined"})
  /\ rafPending \subseteq Gens
  /\ frames \in {0, 1}
  /\ busy \in [Gens -> BOOLEAN]

(***************************************************************************)
(* The frame pipeline in detail.                                           *)
(***************************************************************************)
Max(a, b) == IF a >= b THEN a ELSE b
Min(a, b) == IF a <= b THEN a ELSE b

\* The value 1.0 of the RMS and of the envelope, which are carried in
\* twelve-thousandths: 0.01 is 120 and 0.01 / 12 + 0.01 is 130.
One == 12 * 1000

\* computeRms without Math.max(0, ...).
computeRmsNoFloor(rms) == Min(One, (rms - One \div 100) * 12)

\* The scaling computeRms applies to the RMS of the window it read.
computeRms(rms) == Max(0, Min(One, (rms - One \div 100) * 12))

\* Lengths are carried as their squares.  The square of Math.hypot, in
\* square pixels:
hypot2(dx, dy) == dx * dx + dy * dy

\* headRadius2 with Math.min and Math.max exchanged.
headRadius2Exchanged(ls, rs) ==
  Min(24 * 24 * 400, Max(80 * 80 * 400, 49 * hypot2(ls.x - rs.x, ls.y - rs.y)))

\* The square of headRadius = Math.max(24, Math.min(80, shoulderDist * 0.35))
\* in units of 1/400 square pixel, in which the square 49/400 of 0.35 is 49.
headRadius2(ls, rs) ==
  Max(24 * 24 * 400, Min(80 * 80 * 400, 49 * hypot2(ls.x - rs.x, ls.y - rs.y)))

\* The keypoint list of result n: the keypoints in `present`, the shoulders
\* at ls and rs, the hip below the left shoulder.  A list without keypoint
\* is the empty list.
KeypointList(n, present, ls, rs) ==
  [is |-> "list",
   length |-> IF present = {} THEN 0 ELSE 33,
   at |-> [j \in Joints |->
             IF j \notin present THEN NoPoint
             ELSE IF j = LEFT_SHOULDER THEN [x |-> ls.x, y |-> ls.y, n |-> n]
             ELSE IF j = RIGHT_SHOULDER THEN [x |-> rs.x, y |-> rs.y, n |-> n]
             ELSE [x |-> ls.x, y |-> canvasHeight, n |-> n]]]

\* results.poseLandmarks of a frame without body.
Undefined == [is |-> "undefined", length |-> 0, at |-> [j \in Joints |-> NoPoint]]

\* Which keypoints a reported list holds, and where the shoulders are.
Shapes ==
  {{}, Joints, Joints \ {LEFT_SHOULDER}, Joints \ {RIGHT_SHOULDER}, {LEFT_HIP}}

Stances ==
  {[ls |-> [x |-> 560, y |-> 360], rs |-> [x |-> 720, y |-> 360]],
   [ls |-> [x |-> 0, y |-> 0], rs |-> [x |-> canvasWidth, y |-> canvasHeight]]}

\* What results.poseLandmarks of result n can be.
Results(n) ==
  {Undefined} \cup {KeypointList(n, sh, st.ls, st.rs) : sh \in Shapes, st \in Stances}

\* The truth value of a list element.
Present(p) == p.n # 0

\* The case of the compositor a cache content falls in (landmarksRef of Spec).
Classify(lm) ==
  IF lm.is # "list" THEN "null"
  ELSE IF lm.length = 0 THEN "empty"
  ELSE IF Present(lm.at[LEFT_SHOULDER]) /\ Present(lm.at[RIGHT_SHOULDER]) THEN "both"
  ELSE IF Present(lm.at[LEFT_SHOULDER]) \/ Present(lm.at[RIGHT_SHOULDER]) THEN "oneShoulder"
  ELSE "noShoulder"

\* An onResults callback that copies the reported keypoints into the list
\* the cache holds.
onResultsCopy(cache, r) ==
  IF r.is = "undefined" THEN NullLandmarks
  ELSE IF cache.is # "list" THEN r
  ELSE [r EXCEPT !.at = [j \in Joints |-> IF Present(r.at[j]) THEN r.at[j] ELSE cache.at[j]]]

\* landmarksRef.current = results.poseLandmarks ?? null
onResultsWrite(cache, r) ==
  IF r.is = "undefined" THEN NullLandmarks ELSE r

\* Mouth that takes 0 where no audio source is available.
MouthSilent(f, idle, analyser, buf, rms, t) ==
  IF analyser /\ buf
  THEN IF t = "computeRms" THEN [f EXCEPT !.threw = TRUE]
       ELSE [f EXCEPT !.rms = rms, !.mouthOpen = computeRms(rms),
                      !.ops = Append(@, "mouth")]
  ELSE [f EXCEPT !.mouthOpen = 0, !.ops = Append(@, "mouth")]

\* The mouth of either face: mouthOpen starts at the idle value of the
\* branch and is replaced by the envelope when analyser and buffer exist.
Mouth(f, idle, analyser, buf, rms, t) ==
  IF analyser /\ buf
  THEN IF t = "computeRms" THEN [f EXCEPT !.threw = TRUE]
       ELSE [f EXCEPT !.rms = rms, !.mouthOpen = computeRms(rms),
                      !.ops = Append(@, "mouth")]
  ELSE [f EXCEPT !.mouthOpen = idle, !.ops = Append(@, "mouth")]

\* The branch of a non-empty keypoint list: the skeleton, and the head,
\* eyes and mouth when both shoulders are there.
Tracked(f, lm, analyser, buf, rms, t) ==
  LET sk == [f EXCEPT !.ops = Append(@, "skeleton")]
      ls == lm.at[LEFT_SHOULDER]
      rs == lm.at[RIGHT_SHOULDER]
  IN  IF Present(ls) /\ Present(rs)
      THEN Mouth([sk EXCEPT !.headRadius2 = headRadius2(ls, rs),
                            !.ops = @ \o <<"head", "eyes">>],
                 (15 * One) \div 100, analyser, buf, rms, t)
      ELSE sk

\* The idle face.
Idle(f, analyser, buf, rms, t) ==
  Mouth([f EXCEPT !.headRadius2 = 60 * 60 * 400, !.ops = @ \o <<"head", "eyes">>],
        (12 * One) \div 100, analyser, buf, rms, t)

\* Preview that draws the video whatever its ready state.
PreviewAlways(f, video, ready) ==
  IF f.threw \/ ~video THEN f
  ELSE [f EXCEPT !.readyState = ready, !.ops = Append(@, "thumbnail")]

\* The video preview.
Preview(f, video, ready) ==
  IF f.threw \/ ~video THEN f
  ELSE [f EXCEPT !.readyState = ready,
                 !.ops = IF ready >= 2 THEN Append(@, "thumbnail") ELSE @]

Request(f) ==
  IF f.threw THEN f ELSE [f EXCEPT !.ops = Append(@, "requestAnimationFrame")]

\* What one iteration of render reads and draws once it has its canvas
\* and context.
Frame(lm, analyser, buf, rms, video, ready, t) ==
  LET bg == [Blank EXCEPT !.ops = <<"background">>, !.lm = lm]
      face == IF lm.is = "list" /\ lm.length # 0
              THEN Tracked(bg, lm, analyser, buf, rms, t)
              ELSE Idle(bg, analyser, buf, rms, t)
  IN  Request(Preview(face, video, ready))

\* RenderCallback with what the iteration read and drew.
DrawFrame(g) ==
  /\ RenderCallback(g)
  /\ \E t \in {"none", "computeRms"} :
       LET f == Frame(poseLandmarks, refs.analyserRef # 0, refs.audioBufferRef # 0,
                      level, videoRef, readyState, t) IN
       /\ canvasRef => (f.threw <=> g \notin rafPending')
       /\ lastFrame' = IF canvasRef THEN f ELSE lastFrame
  /\ UNCHANGED <<inflight, delivered, poseLandmarks, level, readyState>>

\* onFrame with the number of frames outstanding at the detector.
PumpFrame(c) ==
  /\ onFrame(c)
  /\ inflight[refs.poseRef] < MaxInflight
  /\ \E sent \in BOOLEAN :
       /\ busy' = IF sent THEN [busy EXCEPT ![refs.poseRef] = TRUE] ELSE busy
       /\ inflight' = IF sent THEN [inflight EXCEPT ![refs.poseRef] = @ + 1] ELSE inflight
  /\ UNCHANGED <<delivered, poseLandmarks, level, readyState, lastFrame>>

\* onResults with the keypoints of the result.
DetectorResult(p) ==
  /\ onResults(p)
  /\ inflight[p] > 0
  /\ delivered < MaxResults
  /\ inflight' = [inflight EXCEPT ![p] = @ - 1]
  /\ busy'[p] = (inflight'[p] > 0)
  /\ delivered' = delivered + 1
  /\ \E r \in Results(delivered + 1) :
       /\ poseLandmarks' = onResultsWrite(poseLandmarks, r)
       /\ Classify(poseLandmarks') = refs'.landmarksRef
  /\ UNCHANGED <<level, readyState, lastFrame>>

\* A session that started and runs, with lm in the landmark cache.
Running(lm) ==
  /\ phase = "mounted"
  /\ started = TRUE
  /\ gen = 1
  /\ pc = [g \in Gens |-> IF g = 1 THEN "done" ELSE "idle"]
  /\ cancelled = [g \in Gens |-> FALSE]
  /\ res = [g \in Gens |-> IF g = 1 THEN [k \in Kinds |-> "live"] ELSE NoRes]
  /\ srcObject = 1
  /\ refs = [rafRef |-> 1, cameraRef |-> 1, poseRef |-> 1, analyserRef |-> 1,
             audioContextRef |-> 1, audioBufferRef |-> 1, landmarksRef |-> lm]
  /\ rafPending = {1}
  /\ frames = 1
  /\ busy = [g \in Gens |-> FALSE]

\* A stopped session with the render loop of a start sequence that went on
\* after an earlier stop: play() of sequence 1 resolved after the stop, a
\* second session started and was stopped, and the stop branch cancelled
\* only the frame rafRef held (part_000:77-98).
Stale(lm) ==
  /\ phase = "mounted"
  /\ started = FALSE
  /\ gen = 2
  /\ pc = [g \in Gens |-> IF g <= 2 THEN "done" ELSE "idle"]
  /\ cancelled = [g \in Gens |-> g <= 2]
  /\ res = [g \in Gens |->
              IF g = 1 THEN [k \in Kinds |-> IF k \in {"audioTrack", "videoTrack"}
                                             THEN "released" ELSE "live"]
              ELSE IF g = 2 THEN [k \in Kinds |-> "released"]
              ELSE NoRes]
  /\ srcObject = 0
  /\ refs = [NullRefs EXCEPT !.landmarksRef = lm]
  /\ rafPending = {1}
  /\ frames = 0
  /\ busy = [g \in Gens |-> FALSE]

(***************************************************************************)
(* PipelineSpec: the pump, the detector and the render loop of one running *)
(* session, from the moment its start sequence completed.                  *)
(***************************************************************************)
PipelineInit ==
  /\ Running("null")
  /\ inflight = [g \in Gens |-> 0]
  /\ delivered = 0
  /\ poseLandmarks = NullLandmarks
  /\ level = 0
  /\ readyState = 4
  /\ lastFrame = Frame(NullLandmarks, TRUE, TRUE, 0, TRUE, 4, "none")

PipelineNext ==
  \/ \E c \in Gens : PumpFrame(c)
  \/ \E p \in Gens : DetectorResult(p)
  \/ \E g \in Gens : DrawFrame(g)

PipelineSpec == PipelineInit /\ [][PipelineNext]_vars

(***************************************************************************)
(* FrameSpec: render iterations over the contents the landmark cache, the  *)
(* audio window and the video can have, in a running session and in a      *)
(* loop left running after stop.                                           *)
(***************************************************************************)
\* The positions on the canvas FrameSpec places the left shoulder at.
Grid ==
  {[x |-> i * PixelStep, y |-> j * PixelStep] :
     i \in 0..(canvasWidth \div PixelStep), j \in 0..(canvasHeight \div PixelStep)}

\* The positions it places the right shoulder at.
Anchors == {[x |-> 0, y |-> 0], [x |-> canvasWidth \div 2, y |-> canvasHeight \div 2]}

\* RMS values below, at and above the two ends of the scaling.
RmsSamples == {0, 120, 600, One}

FrameInit ==
  /\ inflight = [g \in Gens |-> 0]
  /\ delivered = 1
  /\ lastFrame = Blank
  /\ \/ /\ poseLandmarks \in {onResultsWrite(NullLandmarks, r) : r \in Results(1)}
        /\ level \in RmsSamples
        /\ readyState \in 0..4
        /\ Running(Classify(poseLandmarks)) \/ Stale(Classify(poseLandmarks))
     \/ /\ poseLandmarks = NullLandmarks
        /\ level \in 0..MaxRms
        /\ readyState = 4
        /\ Running("null")
     \/ /\ poseLandmarks \in
             {KeypointList(1, Joints, ls, rs) : ls \in Grid, rs \in Anchors}
        /\ level = 0
        /\ readyState = 4
        /\ Running("both")

FrameNext == \E g \in Gens : DrawFrame(g)

FrameSpec == FrameInit /\ [][FrameNext]_vars

(***************************************************************************)
(* Vocabulary of the properties.                                           *)
(***************************************************************************)
Held(st) == st \in {"live", "created"}

\* Sequence g still waits on getUserMedia or on play.
Pending(g) == pc[g] \in {"getUserMedia", "play"}

\* Every session handle is null (the landmark cache is not a handle).
HandlesAbsent ==
  /\ refs.rafRef = 0
  /\ refs.cameraRef = 0
  /\ refs.poseRef = 0
  /\ refs.analyserRef = 0
  /\ refs.audioContextRef = 0
  /\ refs.audioBufferRef = 0

\* No object created by sequence g is still acquired, and its render loop
\* has no callback scheduled.
HoldsNothing(g) ==
  /\ \A k \in Kinds : ~Held(res[g][k])
  /\ g \notin rafPending

\* Sequence g never created anything and nothing refers to it.
OwnsNothing(g) ==
  /\ res[g] = NoRes
  /\ g \notin rafPending
  /\ srcObject # g
  /\ ~busy[g]
  /\ g \notin {refs.rafRef, refs.cameraRef, refs.poseRef, refs.analyserRef,
               refs.audioContextRef, refs.audioBufferRef}

\* The stop branch ran to its end and no start was requested since.
Stopped == ~started /\ phase = "mounted"

\* The step is a run of the stop branch requested through Page.
StopStep == started /\ ~started'

\* The step is the component leaving the tree.
UnmountStep == phase = "mounted" /\ phase' = "unmounted" /\ started' = started

(***************************************************************************)
(* C1: when the stop branch has run to its end, every object acquired by   *)
(* a start sequence that ran to completion has been released exactly once, *)
(* no render callback of it is scheduled, the source of the playback       *)
(* surface is cleared and every session handle is absent.                  *)
(***************************************************************************)
C1_StopReleasesAll ==
  [][(StopStep /\ phase' = "mounted")
       => /\ \A g \in Gens :
               pc[g] = "done" => /\ \A k \in Kinds : res'[g][k] = "released"
                                 /\ g \notin rafPending'
          /\ srcObject' = 0
          /\ HandlesAbsent']_vars

C3_FailedStartHoldsNothing ==
  \A g \in Gens :
    pc[g] \in ({"rejected play"} \cup (BuildThrowPoints \ {"none", "computeRms"}))
      => HoldsNothing(g)

(***************************************************************************)
(* C4: running the stop branch a second time right after it ran changes    *)
(* nothing, makes no release call (so none is repeated and none can        *)
(* throw), and on a session that was never started the stop branch changes *)
(* nothing at all.                                                         *)
(***************************************************************************)
C4_StopIdempotent ==
  LET once == StopBranch(Session, "none", videoRef) IN
  /\ \A t \in StopThrowPoints : StopBranch(once, t, videoRef) = once
  /\ gen = 0 => \A t \in StopThrowPoints : StopBranch(Session, t, videoRef) = Session

\* The stop branch has just released a session that had been fully started.
C4_Witness ==
  /\ Stopped
  /\ gen = 1
  /\ pc[1] = "done"
  /\ \A k \in Kinds : res[1][k] = "released"
  /\ HandlesAbsent

(***************************************************************************)
(* C5: once stop was requested and every start sequence has settled        *)
(* (returned, completed or rejected), full teardown is reached: no track   *)
(* is live and no audio context, analysis node, detector, pump or render   *)
(* loop exists.                                                            *)
(***************************************************************************)
C5_TeardownAfterSettle ==
  (/\ Stopped
   /\ \A g \in Gens :
        pc[g] \in {"idle", "returned", "done", "rejected getUserMedia", "rejected play"})
    => \A g \in Gens : HoldsNothing(g)

(***************************************************************************)
(* C6: from the moment the stop branch has run until the next start is     *)
(* requested no frame is drawn and no render callback stays scheduled.     *)
(***************************************************************************)
C6_NoDrawWhileStopped ==
  [][/\ Stopped => frames' = frames
     /\ Stopped' => rafPending' = {}]_vars

(***************************************************************************)
(* C7: at most one capture session exists at a time, and every live audio  *)
(* context, detector, pump and render loop of a completed start is the one *)
(* the session handles refer to.                                           *)
(***************************************************************************)
SessionExists(g) ==
  /\ pc[g] = "done"
  /\ \/ res[g].audioContext = "live"
     \/ res[g].pose = "live"
     \/ res[g].camera = "live"
     \/ g \in rafPending

C7_AtMostOneSession ==
  /\ Cardinality({g \in Gens : SessionExists(g)}) <= 1
  /\ \A g \in Gens :
       pc[g] = "done" =>
         /\ res[g].audioContext = "live" => refs.audioContextRef = g
         /\ res[g].pose = "live" => refs.poseRef = g
         /\ res[g].camera = "live" => refs.cameraRef = g
         /\ g \in rafPending => refs.rafRef = g

(***************************************************************************)
(* C8: whatever release call of the stop branch throws, every handle is    *)
(* cleared and the source of the playback surface is cleared.              *)
(***************************************************************************)
C8_TeardownTotal ==
  [][StopStep => (HandlesAbsent' /\ srcObject' = 0)]_vars

(***************************************************************************)
(* C9: once the component was torn down while started and the start        *)
(* sequence has settled, the session holds no track, audio context,        *)
(* analysis node, detector or pump.                                        *)
(***************************************************************************)
C9_UnmountReleases ==
  (phase = "unmounted" /\ started /\ ~Pending(gen))
    => \A k \in Kinds : ~Held(res[gen][k])

(***************************************************************************)
(* C10: a step that draws a frame never leaves a render loop that had a    *)
(* callback scheduled without one: an iteration of a running loop always   *)
(* requests its next frame, whether or not the audio read or a detector    *)
(* invocation failed.                                                      *)
(***************************************************************************)
C10_RenderLoopSurvives ==
  [][frames' # frames => rafPending \subseteq rafPending']_vars

(***************************************************************************)
(* C15: the stop branch discards the landmark cache: when it has run the   *)
(* cache is absent, and it stays absent while the session is stopped, so a *)
(* result of the stopped session delivered late does not bring landmarks   *)
(* back and the next session starts from the idle avatar.                  *)
(***************************************************************************)
C15_StopDiscardsCache ==
  [][/\ (StopStep /\ phase' = "mounted") => refs'.landmarksRef = "null"
     /\ (Stopped /\ Stopped') => refs'.landmarksRef = refs.landmarksRef]_vars

(***************************************************************************)
(* C17: a render iteration that fires while the canvas is missing draws    *)
(* nothing, raises no error, requests no next frame and changes no handle, *)
(* and from then on no loop gets a callback scheduled and no frame is      *)
(* drawn.                                                                  *)
(***************************************************************************)
IterationDoesNothing ==
  \A g \in rafPending : \A t \in {"none", "computeRms"} :
    LET fired == [Session EXCEPT !.rafPending = @ \ {g}] IN
    render(fired, g, t, canvasRef) = fired

C17_MissingCanvasEndsLoop ==
  [][/\ ~canvasRef => IterationDoesNothing
     /\ ~canvasRef' => IterationDoesNothing'
     /\ ~canvasRef => (rafPending' \subseteq rafPending /\ frames' = frames)]_vars

\* The component left the tree while a render loop was running, and the
\* callback that was scheduled has fired: nothing is scheduled any more.
C17_Witness ==
  /\ phase = "unmounted"
  /\ started
  /\ gen = 1
  /\ pc[1] = "done"
  /\ refs.rafRef = 1
  /\ rafPending = {}

(***************************************************************************)
(* C20: whenever the pump callback forwards a frame, the detector poseRef  *)
(* holds is open, and while the session is stopped no frame is forwarded   *)
(* to any detector.                                                        *)
(***************************************************************************)
C20_NoSendToClosedDetector ==
  [][/\ \A c \in Gens :
          (res[c].camera = "live" /\ refs.poseRef # 0 /\ videoRef)
            => res[refs.poseRef].pose = "live"
     /\ Stopped => \A p \in Gens : busy'[p] => busy[p]]_vars

\* The frame the last iteration drew holds the draw operation op.
HasOp(op) == \E i \in DOMAIN lastFrame.ops : lastFrame.ops[i] = op

\* How many times it holds it.
CountOp(op) == Cardinality({i \in DOMAIN lastFrame.ops : lastFrame.ops[i] = op})

(***************************************************************************)
(* C11: a detector never has more than one frame outstanding: a frame the  *)
(* pump delivers while an earlier one is not yet answered is not sent.     *)
(***************************************************************************)
C11_OneInFlight == \A p \in Gens : inflight[p] <= 1

(***************************************************************************)
(* C12: what a render iteration reads from the landmark cache is the       *)
(* cache as it stands, and that is the absent marker or the complete       *)
(* keypoint list of one single detector result; the cache changes only     *)
(* when a result is delivered, and then to what that result reported.      *)
(***************************************************************************)
Whole(lm) ==
  \/ lm = NullLandmarks
  \/ \E n \in 1..MaxResults : lm \in Results(n) \ {Undefined}

C12_CacheReadsWhole ==
  [][/\ Whole(poseLandmarks')
     /\ lastFrame' # lastFrame => (lastFrame'.lm = poseLandmarks /\ Whole(lastFrame'.lm))
     /\ poseLandmarks' # poseLandmarks
          => /\ delivered' = delivered + 1
             /\ \/ poseLandmarks' = NullLandmarks
                \/ poseLandmarks' \in Results(delivered') \ {Undefined}]_vars

\* A frame drawn from the keypoints of the second result, which replaced
\* those of the first.
C12_Witness ==
  /\ delivered = 2
  /\ lastFrame.lm = poseLandmarks
  /\ lastFrame.lm.is = "list"
  /\ \A j \in Joints : lastFrame.lm.at[j].n = 2

(***************************************************************************)
(* C13 as stated: for every RMS up to 0.01 / 12 + 0.01 (130) the envelope  *)
(* computeRms returns is exactly 0.                                        *)
(***************************************************************************)
C13_ZeroUpToStatedBound ==
  (lastFrame.rms # NoValue /\ lastFrame.rms <= 130) => lastFrame.mouthOpen = 0

(***************************************************************************)
(* C13 amended: for every RMS up to 0.01 (120) the envelope computeRms     *)
(* returns is exactly 0, and for an RMS above 0.01 and up to               *)
(* 0.01 / 12 + 0.01 it is 12 * (RMS - 0.01), which is above 0.             *)
(***************************************************************************)
C13_ZeroUpToThreshold ==
  lastFrame.rms # NoValue =>
    /\ lastFrame.rms <= 120 => lastFrame.mouthOpen = 0
    /\ lastFrame.rms \in 121..130
         => (lastFrame.mouthOpen = 12 * (lastFrame.rms - 120) /\ lastFrame.mouthOpen > 0)

\* A frame whose mouth was drawn from an RMS of exactly 0.01.
C13_Witness ==
  /\ lastFrame.rms = 120
  /\ lastFrame.mouthOpen = 0
  /\ HasOp("mouth")

(***************************************************************************)
(* C14: the head of the tracked avatar has a radius between 24 and 80      *)
(* pixels, which is 0.35 times the shoulder distance clamped to that       *)
(* range: 24 when the shoulders coincide, 80 when they are 229 pixels or   *)
(* more apart.                                                             *)
(***************************************************************************)
C14_HeadRadiusClamped ==
  (HasOp("head") /\ HasOp("skeleton")) =>
    LET ls == lastFrame.lm.at[LEFT_SHOULDER]
        rs == lastFrame.lm.at[RIGHT_SHOULDER]
        d2 == (ls.x - rs.x) * (ls.x - rs.x) + (ls.y - rs.y) * (ls.y - rs.y)
        r2 == lastFrame.headRadius2
    IN  /\ r2 >= 24 * 24 * 400
        /\ r2 <= 80 * 80 * 400
        /\ d2 = 0 => r2 = 24 * 24 * 400
        /\ d2 >= 229 * 229 => r2 = 80 * 80 * 400
        /\ (49 * d2 >= 24 * 24 * 400 /\ 49 * d2 <= 80 * 80 * 400) => r2 = 49 * d2

\* A tracked head drawn for shoulders that coincide.
C14_Witness ==
  /\ HasOp("head")
  /\ HasOp("skeleton")
  /\ lastFrame.lm.at[LEFT_SHOULDER].x = lastFrame.lm.at[RIGHT_SHOULDER].x
  /\ lastFrame.lm.at[LEFT_SHOULDER].y = lastFrame.lm.at[RIGHT_SHOULDER].y
  /\ lastFrame.headRadius2 = 24 * 24 * 400

\* The iteration found no analysis node or no sample buffer.
NoAudio == refs.analyserRef = 0 \/ refs.audioBufferRef = 0

(***************************************************************************)
(* C16 as stated: a mouth drawn while no audio source is available is      *)
(* drawn from the envelope value 0.                                        *)
(***************************************************************************)
C16_NoAudioEnvelopeZero ==
  (NoAudio /\ HasOp("mouth")) => lastFrame.mouthOpen = 0

(***************************************************************************)
(* C16 amended: a mouth drawn while no audio source is available is drawn  *)
(* from the idle value of its branch, 0.15 (1800) under the tracked head   *)
(* and 0.12 (1440) in the idle face, and the audio window is not read.     *)
(***************************************************************************)
C16_NoAudioIdleValue ==
  (NoAudio /\ HasOp("mouth")) =>
    /\ lastFrame.rms = NoValue
    /\ lastFrame.mouthOpen = IF HasOp("skeleton") THEN 1800 ELSE 1440

\* A tracked head drawn by a loop that runs without audio source.
C16_Witness ==
  /\ NoAudio
  /\ HasOp("skeleton")
  /\ HasOp("mouth")
  /\ lastFrame.mouthOpen = 1800

(***************************************************************************)
(* C18: the draw operations of a frame follow the order background,        *)
(* skeleton, head, eyes, mouth, thumbnail, each at most once and the       *)
(* background first; the thumbnail is drawn only when the ready state the  *)
(* iteration read is at least 2; and the request for the next frame comes  *)
(* after every draw.                                                       *)
(***************************************************************************)
DrawOrder ==
  <<"background", "skeleton", "head", "eyes", "mouth", "thumbnail",
    "requestAnimationFrame">>

Rank(op) == CHOOSE i \in DOMAIN DrawOrder : DrawOrder[i] = op

C18_DrawOrder ==
  LET ops == lastFrame.ops IN
  /\ \A i \in DOMAIN ops : ops[i] \in {DrawOrder[k] : k \in DOMAIN DrawOrder}
  /\ \A i, j \in DOMAIN ops : i < j => Rank(ops[i]) < Rank(ops[j])
  /\ ops # <<>> => ops[1] = "background"
  /\ HasOp("thumbnail") => lastFrame.readyState >= 2

\* A frame with every draw operation and the request for the next one.
C18_Witness == lastFrame.ops = DrawOrder

(***************************************************************************)
(* C19: every frame an iteration drew to its end holds exactly one head,   *)
(* one pair of eyes and one mouth, whatever the landmark cache held.       *)
(***************************************************************************)
C19_AlwaysAFace ==
  HasOp("requestAnimationFrame") =>
    /\ CountOp("head") = 1
    /\ CountOp("eyes") = 1
    /\ CountOp("mouth") = 1
====
